---------------------------- MODULE Spec2Model ----------------------------
(***************************************************************************)
(* Box-to-box narrow phase of src/dim3/collision.rs (box_to_box and its    *)
(* helpers) as a state machine.  One collision query is one behaviour:     *)
(* Init draws the two Obb inputs, and the actions are the stages of        *)
(* box_to_box in program order (frame setup, the face axes of A, the face  *)
(* axes of B, the nine edge axes, axis selection, the face case with its   *)
(* four clip passes and depth filter, the edge case).                      *)
(*                                                                         *)
(* Numbers.  f32 values are modelled as exact fixed-point integers:        *)
(*   - lengths of the inputs (translations, extents) in units of 1/Unit;   *)
(*   - rotations (unit quaternions) by their rotation matrix, every entry  *)
(*     multiplied by RotDen, kept column-major as glam's Mat3 is;          *)
(*   - every derived quantity at the scale its formula gives it (see the   *)
(*     *Scale definitions), so that sums and products are exact.           *)
(* Only three operations round, and only for boxes that are not axis       *)
(* aligned: the reciprocal length in track_edge_axis, the interpolation    *)
(* of a cut vertex in orthographic and the quotients of edges_contact.     *)
(* Local offsets are axis aligned, so that a composed rotation is again a  *)
(* matrix over RotDen.                                                     *)
(***************************************************************************)
EXTENDS Integers, Sequences, FiniteSets, TLC

(***************************************************************************)
(* Fixed-point scales.                                                     *)
(***************************************************************************)
Unit == 10                            \* input length 1.0 is Unit
RotDen == 3                           \* rotation matrix entry 1.0 is RotDen
Fine == 20                            \* extra resolution of derived lengths
RelDen == RotDen * RotDen             \* entries of c = conj(qa) * qb
VertexScale == RotDen * Unit          \* transform_point3 of a local point
ClipScale == RotDen * RotDen * Unit * Fine           \* clip-space coordinates
MarginScale == RotDen * RotDen * RotDen * Unit * Fine  \* s, smax, penetration, contact positions
NormalScale == 3000                   \* components of a returned normal (unit vector)

(***************************************************************************)
(* Vec3 (a triple, index 1..3 for x, y, z) and Mat3 (a triple of columns). *)
(***************************************************************************)
Abs(x) == IF x < 0 THEN -x ELSE x

Sgn(x) == IF x < 0 THEN -1 ELSE 1

\* Division rounding toward zero, as a sign-symmetric fixed-point quotient.
RDiv(x, d) == Sgn(x) * Sgn(d) * (Abs(x) \div Abs(d))

\* x * m / d rounded toward zero, without forming x * m
RMulDiv(x, m, d) ==
    Sgn(x) * Sgn(m) * Sgn(d)
    * ((Abs(x) \div Abs(d)) * Abs(m) + ((Abs(x) % Abs(d)) * Abs(m)) \div Abs(d))

RECURSIVE ISqrtBetween(_, _, _)
ISqrtBetween(n, lo, hi) ==
    IF lo >= hi THEN lo
    ELSE LET mid == (lo + hi + 1) \div 2
         IN IF mid * mid <= n THEN ISqrtBetween(n, mid, hi)
            ELSE ISqrtBetween(n, lo, mid - 1)

ISqrt(n) == ISqrtBetween(n, 0, 40000)

RECURSIVE Gcd(_, _)
Gcd(x, y) == IF y = 0 THEN x ELSE Gcd(y, x % y)

Vec3(x, y, z) == <<x, y, z>>

VZero == <<0, 0, 0>>

VAdd(u, v) == <<u[1] + v[1], u[2] + v[2], u[3] + v[3]>>

VSub(u, v) == <<u[1] - v[1], u[2] - v[2], u[3] - v[3]>>

VNeg(v) == <<-v[1], -v[2], -v[3]>>

VScale(v, k) == <<v[1] * k, v[2] * k, v[3] * k>>

VMul(u, v) == <<u[1] * v[1], u[2] * v[2], u[3] * v[3]>>

VAbs(v) == <<Abs(v[1]), Abs(v[2]), Abs(v[3])>>

VSign(v) == <<Sgn(v[1]), Sgn(v[2]), Sgn(v[3])>>

VRDiv(v, d) == <<RDiv(v[1], d), RDiv(v[2], d), RDiv(v[3], d)>>

Dot(u, v) == u[1] * v[1] + u[2] * v[2] + u[3] * v[3]

FromCols(c0, c1, c2) == <<c0, c1, c2>>

Transpose(m) ==
    << <<m[1][1], m[2][1], m[3][1]>>,
       <<m[1][2], m[2][2], m[3][2]>>,
       <<m[1][3], m[2][3], m[3][3]>> >>

\* Mat3 * Vec3
MulVec(m, v) == VAdd(VAdd(VScale(m[1], v[1]), VScale(m[2], v[2])), VScale(m[3], v[3]))

\* Mat3 * Mat3
MatMul(a, b) == <<MulVec(a, b[1]), MulVec(a, b[2]), MulVec(a, b[3])>>

\* impl Mult for Mat3 / impl Mult for Quat: the transpose (conjugate) applied to v
Mult(m, v) == MulVec(Transpose(m), v)

column0(m) == m[1]

column1(m) == m[2]

column2(m) == m[3]

row0(m) == column0(Transpose(m))

row1(m) == column1(Transpose(m))

row2(m) == column2(Transpose(m))

Column(m, i) == IF i = 0 THEN column0(m) ELSE IF i = 1 THEN column1(m) ELSE column2(m)

Row(m, i) == IF i = 0 THEN row0(m) ELSE IF i = 1 THEN row1(m) ELSE row2(m)


(***************************************************************************)
(* Program constants.                                                      *)
(***************************************************************************)
U8Max == 255                  \* u8::MAX, the unset feature id
U32Max == 99                  \* stands for u32::MAX, the "no axis" sentinel (outside 0..14)
F32Min == -10000000           \* f32::MIN, below every margin the inputs can give
EpsNum == 1                   \* EPS = 1.0e-6 = EpsNum / EpsDen
EpsDen == 1000000
RelTolNum == 95               \* REL_TOLERANCE = 0.95 = RelTolNum / TolDen
AbsTolNum == 1                \* ABS_TOLERANCE = 0.01 = AbsTolNum / TolDen
TolDen == 100
ClipEpsNum == 5               \* the 0.005 band of on() = ClipEpsNum / ClipEpsDen
ClipEpsDen == 1000
LenDen == 4000                \* resolution of the rounded vector length in track_edge_axis

(***************************************************************************)
(* Transform: a rotation and a translation; value() is the pair as an      *)
(* affine map.                                                             *)
(***************************************************************************)
Transform(rot, pos) == [rot |-> rot, pos |-> pos]

\* *atx.value_mut() = *atx.value() * *al.value()
Compose(world, local) ==
    [rot |-> <<VRDiv(MulVec(world.rot, local.rot[1]), RotDen),
               VRDiv(MulVec(world.rot, local.rot[2]), RotDen),
               VRDiv(MulVec(world.rot, local.rot[3]), RotDen)>>,
     pos |-> VAdd(world.pos, VRDiv(MulVec(world.rot, local.pos), RotDen))]

\* tx.value().transform_point3(p), p in input units: the result is at VertexScale
transform_point3(tx, p) == VAdd(MulVec(tx.rot, p), VScale(tx.pos, RotDen))

(***************************************************************************)
(* Rotations the inputs are drawn from (columns, entries times RotDen).    *)
(***************************************************************************)
Identity == << <<3, 0, 0>>, <<0, 3, 0>>, <<0, 0, 3>> >>

RotZ90 == << <<0, 3, 0>>, <<-3, 0, 0>>, <<0, 0, 3>> >>

RotX90 == << <<3, 0, 0>>, <<0, 0, 3>>, <<0, -3, 0>> >>

Cycle == << <<0, 3, 0>>, <<0, 0, 3>>, <<3, 0, 0>> >>

\* the rotation of the unit quaternion (3, 1, 1, 1) / sqrt(12)
Tilt == << <<2, 2, -1>>, <<-1, 2, 2>>, <<2, -1, 2>> >>

Det(m) ==
      m[1][1] * (m[2][2] * m[3][3] - m[3][2] * m[2][3])
    - m[2][1] * (m[1][2] * m[3][3] - m[3][2] * m[1][3])
    + m[3][1] * (m[1][2] * m[2][3] - m[2][2] * m[1][3])

AxisVectors == {<<3, 0, 0>>, <<-3, 0, 0>>, <<0, 3, 0>>, <<0, -3, 0>>, <<0, 0, 3>>, <<0, 0, -3>>}

\* the 24 rotations of the cube
CubeRotations ==
    {m \in AxisVectors \X AxisVectors \X AxisVectors :
        /\ Dot(m[1], m[2]) = 0 /\ Dot(m[1], m[3]) = 0 /\ Dot(m[2], m[3]) = 0
        /\ Det(m) = RotDen * RotDen * RotDen}

IsAxisAligned(m) == m \in CubeRotations

(***************************************************************************)
(* track_face_axis and track_edge_axis.  s and smax are at MarginScale.    *)
(***************************************************************************)
track_face_axis(n, s, smax, normal) ==
    IF s > 0 THEN [tag |-> "None"]
    ELSE IF s > smax THEN [tag |-> "Some", axis |-> n, max |-> s, normal |-> normal]
    ELSE [tag |-> "Yes"]

\* |normal| * LenDen, rounded down; normal is at RelDen scale
ScaledLength(normal) == ISqrt(Dot(normal, normal) * LenDen * LenDen)

\* s * l and normal * l with l = normal.length_reciprocal().  A zero normal gives
\* l = inf and s * l = -inf or NaN, for which "s > smax" is false.
track_edge_axis(n, s, smax, normal) ==
    IF s > 0 THEN [tag |-> "None"]
    ELSE LET len == ScaledLength(normal)
         IN IF len = 0 THEN [tag |-> "Yes"]
            ELSE LET sl == RMulDiv(s, RelDen * LenDen, len)
                 IN IF sl > smax
                    THEN [tag |-> "Some", axis |-> n, max |-> sl,
                          normal |-> VRDiv(VScale(normal, NormalScale * LenDen), len)]
                    ELSE [tag |-> "Yes"]

(***************************************************************************)
(* box_to_box, frame setup (lines 680-712).                                *)
(***************************************************************************)
Obb(body, transform, local, extent) ==
    [body |-> body, transform |-> transform, local |-> local, extent |-> extent]

EntryAbs(m) ==
    << VAbs(m[1]), VAbs(m[2]), VAbs(m[3]) >>

\* IsParallel with "val > 1.0"
IsParallelOnlyAboveOne(absca) ==
    \E i \in 1..3 : \E j \in 1..3 : absca[i][j] > RelDen

\* val + EPS >= 1.0 for some entry val of |c|
IsParallel(absca) ==
    \E i \in 1..3 : \E j \in 1..3 :
        absca[i][j] * EpsDen + EpsNum * RelDen >= RelDen * EpsDen

FrameSetup(a, b) ==
    LET atx == Compose(a.transform, a.local)
        btx == Compose(b.transform, b.local)
        c == MatMul(Transpose(atx.rot), btx.rot)
    IN [atx |-> atx,
        btx |-> btx,
        ea |-> a.extent,
        eb |-> b.extent,
        c |-> c,
        absc |-> EntryAbs(c),
        parallel |-> IsParallel(EntryAbs(c)),
        t |-> Mult(atx.rot, VSub(btx.pos, atx.pos))]

(***************************************************************************)
(* The separating-axis search (lines 714-924).  A tracker holds the three  *)
(* running maxima; each group of axes returns the tracker and whether an   *)
(* axis proved separation ("return None").                                 *)
(***************************************************************************)
\* InitTracker with the running maxima started at 0.0
InitTrackerFromZero ==
    [amax |-> 0, bmax |-> 0, emax |-> 0,
     aaxis |-> U32Max, baxis |-> U32Max, eaxis |-> U32Max,
     na |-> VZero, nb |-> VZero, ne |-> VZero]

InitTracker ==
    [amax |-> F32Min, bmax |-> F32Min, emax |-> F32Min,
     aaxis |-> U32Max, baxis |-> U32Max, eaxis |-> U32Max,
     na |-> VZero, nb |-> VZero, ne |-> VZero]

FaceNormal(row) == VScale(row, NormalScale \div RotDen)

\* s = t[i].abs() - (ea[i] + absc.column(i).dot(eb))
FaceASeparation(fr, i) ==
    Fine * RotDen * (RotDen * Abs(fr.t[i + 1])
                     - (RelDen * fr.ea[i + 1] + Dot(Column(fr.absc, i), fr.eb)))

\* s = t.dot(c.row(i)).abs() - (eb[i] + absc.row(i).dot(ea))
FaceBSeparation(fr, i) ==
    Fine * (Abs(Dot(fr.t, Row(fr.c, i)))
            - RotDen * (RelDen * fr.eb[i + 1] + Dot(Row(fr.absc, i), fr.ea)))

TrackFaceA(fr, tr, i) ==
    LET r == track_face_axis(i, FaceASeparation(fr, i), tr.amax, FaceNormal(Row(fr.atx.rot, i)))
    IN IF r.tag = "None" THEN [none |-> TRUE, tr |-> tr]
       ELSE IF r.tag = "Some"
            THEN [none |-> FALSE,
                  tr |-> [tr EXCEPT !.amax = r.max, !.aaxis = r.axis, !.na = r.normal]]
            ELSE [none |-> FALSE, tr |-> tr]

TrackFaceB(fr, tr, i) ==
    LET r == track_face_axis(3 + i, FaceBSeparation(fr, i), tr.bmax, FaceNormal(Row(fr.btx.rot, i)))
    IN IF r.tag = "None" THEN [none |-> TRUE, tr |-> tr]
       ELSE IF r.tag = "Some"
            THEN [none |-> FALSE,
                  tr |-> [tr EXCEPT !.bmax = r.max, !.baxis = r.axis, !.nb = r.normal]]
            ELSE [none |-> FALSE, tr |-> tr]

\* edge axis 6 + 3 * i + j: the cross product of axis i of A and axis j of B
EdgeSeparation(fr, i, j) ==
    LET i1 == (i + 1) % 3
        i2 == (i + 2) % 3
        j1 == (j + 1) % 3
        j2 == (j + 2) % 3
        ca == fr.c
        absca == fr.absc
        ra == fr.ea[i1 + 1] * absca[i2 + 1][j + 1] + fr.ea[i2 + 1] * absca[i1 + 1][j + 1]
        rb == fr.eb[j1 + 1] * absca[i + 1][j2 + 1] + fr.eb[j2 + 1] * absca[i + 1][j1 + 1]
    IN Fine * (Abs(fr.t[i2 + 1] * ca[i1 + 1][j + 1] - fr.t[i1 + 1] * ca[i2 + 1][j + 1])
               - RotDen * (ra + rb))

EdgeNormal(fr, i, j) ==
    LET i1 == (i + 1) % 3
        i2 == (i + 2) % 3
        ca == fr.c
        comp(k) == IF k = i THEN 0
                   ELSE IF k = i1 THEN -ca[i2 + 1][j + 1]
                   ELSE ca[i1 + 1][j + 1]
    IN <<comp(0), comp(1), comp(2)>>

TrackEdge(fr, tr, k) ==
    LET i == (k - 6) \div 3
        j == (k - 6) % 3
        r == track_edge_axis(k, EdgeSeparation(fr, i, j), tr.emax, EdgeNormal(fr, i, j))
    IN IF r.tag = "None" THEN [none |-> TRUE, tr |-> tr]
       ELSE IF r.tag = "Some"
            THEN [none |-> FALSE,
                  tr |-> [tr EXCEPT !.emax = r.max, !.eaxis = r.axis, !.ne = r.normal]]
            ELSE [none |-> FALSE, tr |-> tr]

\* the calls for the axes first..last in order, stopping at the first "return None"
RECURSIVE TrackAxes(_, _, _, _)
TrackAxes(fr, tr, first, last) ==
    IF first > last THEN [none |-> FALSE, tr |-> tr]
    ELSE LET r == IF first < 3 THEN TrackFaceA(fr, tr, first)
                  ELSE IF first < 6 THEN TrackFaceB(fr, tr, first - 3)
                  ELSE TrackEdge(fr, tr, first)
         IN IF r.none THEN r ELSE TrackAxes(fr, r.tr, first + 1, last)

(***************************************************************************)
(* Axis selection (lines 926-953).                                         *)
(***************************************************************************)
Max(x, y) == IF x > y THEN x ELSE y

\* REL_TOLERANCE * challenger > incumbent + ABS_TOLERANCE
Beats(challenger, incumbent) ==
    RelTolNum * challenger > TolDen * incumbent + AbsTolNum * MarginScale

SelectAxis(fr, tr) ==
    LET facemax == Max(tr.amax, tr.bmax)
        pick == IF Beats(tr.emax, facemax)
                THEN [axis |-> tr.eaxis, smax |-> tr.emax, n |-> tr.ne]
                ELSE IF Beats(tr.bmax, tr.amax)
                THEN [axis |-> tr.baxis, smax |-> tr.bmax, n |-> tr.nb]
                ELSE [axis |-> tr.aaxis, smax |-> tr.amax, n |-> tr.na]
        n == IF Dot(pick.n, VSub(fr.btx.pos, fr.atx.pos)) < 0 THEN VNeg(pick.n) ELSE pick.n
    IN [axis |-> pick.axis, smax |-> pick.smax, n |-> n]

(***************************************************************************)
(* Face case: FeaturePair, ClipVertex, compute_incident_face (151-414).    *)
(***************************************************************************)
FeaturePair(inr, outr, ini, outi) == [inr |-> inr, outr |-> outr, ini |-> ini, outi |-> outi]

ClipVertex(v, f) == [v |-> v, f |-> f]

\* Corner with the incoming and the outgoing edge id exchanged
CornerSwapsEdgeIds(itx, e, sx, sy, sz, ini, outi) ==
    ClipVertex(transform_point3(itx, <<sx * e[1], sy * e[2], sz * e[3]>>),
               FeaturePair(U8Max, U8Max, outi, ini))

\* one corner of the incident box: the signs of its local coordinates and its edge ids
Corner(itx, e, sx, sy, sz, ini, outi) ==
    ClipVertex(transform_point3(itx, <<sx * e[1], sy * e[2], sz * e[3]>>),
               FeaturePair(U8Max, U8Max, ini, outi))

compute_incident_face(itx, e, n0) ==
    LET n == VNeg(Mult(itx.rot, n0))
        absn == VAbs(n)
    IN IF absn[1] > absn[2] /\ absn[1] > absn[3]
       THEN IF n[1] > 0
            THEN << Corner(itx, e, 1, 1, -1, 9, 1),
                    Corner(itx, e, 1, 1, 1, 1, 8),
                    Corner(itx, e, 1, -1, 1, 8, 7),
                    Corner(itx, e, 1, -1, -1, 7, 9) >>
            ELSE << Corner(itx, e, -1, -1, 1, 5, 11),
                    Corner(itx, e, -1, 1, 1, 11, 3),
                    Corner(itx, e, -1, 1, -1, 3, 10),
                    Corner(itx, e, -1, -1, -1, 10, 5) >>
       ELSE IF absn[2] > absn[1] /\ absn[2] > absn[3]
       THEN IF n[2] > 0
            THEN << Corner(itx, e, -1, 1, 1, 3, 0),
                    Corner(itx, e, 1, 1, 1, 0, 1),
                    Corner(itx, e, 1, 1, -1, 1, 2),
                    Corner(itx, e, -1, 1, -1, 2, 3) >>
            ELSE << Corner(itx, e, 1, -1, 1, 7, 4),
                    Corner(itx, e, -1, -1, 1, 4, 5),
                    Corner(itx, e, -1, -1, -1, 5, 6),
                    Corner(itx, e, 1, -1, -1, 6, 7) >>
       ELSE IF n[3] > 0
            THEN << Corner(itx, e, -1, 1, 1, 0, 11),
                    Corner(itx, e, -1, -1, 1, 11, 4),
                    Corner(itx, e, 1, -1, 1, 4, 8),
                    Corner(itx, e, 1, 1, 1, 8, 0) >>
            ELSE << Corner(itx, e, 1, -1, -1, 9, 6),
                    Corner(itx, e, -1, -1, -1, 6, 10),
                    Corner(itx, e, -1, 1, -1, 10, 2),
                    Corner(itx, e, 1, 1, -1, 2, 9) >>

(***************************************************************************)
(* compute_reference_edges_and_basis (422-508).  e stays in input units.   *)
(***************************************************************************)
RefEb(clip_edges, basis, e) == [clip_edges |-> clip_edges, basis |-> basis, e |-> e]

compute_reference_edges_and_basis(er, rtx, n0, axis0) ==
    LET n == Mult(rtx.rot, n0)
        axis == IF axis0 >= 3 THEN axis0 - 3 ELSE axis0
        row_rot == Transpose(rtx.rot)
        c0 == column0(row_rot)
        c1 == column1(row_rot)
        c2 == column2(row_rot)
    IN IF axis = 0
       THEN IF n[1] > 0
            THEN RefEb(<<1, 8, 7, 9>>, Transpose(FromCols(c1, c2, c0)),
                       <<er[2], er[3], er[1]>>)
            ELSE RefEb(<<11, 3, 10, 5>>, Transpose(FromCols(c2, c1, VNeg(c0))),
                       <<er[3], er[2], er[1]>>)
       ELSE IF axis = 1
       THEN IF n[2] > 0
            THEN RefEb(<<0, 1, 2, 3>>, Transpose(FromCols(c2, c0, c1)),
                       <<er[3], er[1], er[2]>>)
            ELSE RefEb(<<4, 5, 6, 7>>, Transpose(FromCols(c2, VNeg(c0), VNeg(c1))),
                       <<er[3], er[1], er[2]>>)
       ELSE IF n[3] > 0
            THEN RefEb(<<11, 4, 8, 0>>, Transpose(FromCols(VNeg(c1), c0, c2)),
                       <<er[2], er[1], er[3]>>)
            ELSE RefEb(<<6, 10, 2, 9>>, Transpose(FromCols(VNeg(c1), VNeg(c0), VNeg(c2))),
                       <<er[2], er[1], er[3]>>)

(***************************************************************************)
(* orthographic (510-568): one Sutherland-Hodgman pass.  Positions and e   *)
(* are at ClipScale.                                                       *)
(***************************************************************************)
in_front(x) == x < 0

behind(x) == x >= 0

on(x) == x * ClipEpsDen < ClipEpsNum * ClipScale /\ x * ClipEpsDen > -(ClipEpsNum * ClipScale)

\* a.v + (b.v - a.v) * (da / (da - db))
CutPoint(a, b, da, db) ==
    <<a.v[1] + RDiv((b.v[1] - a.v[1]) * da, da - db),
      a.v[2] + RDiv((b.v[2] - a.v[2]) * da, da - db),
      a.v[3] + RDiv((b.v[3] - a.v[3]) * da, da - db)>>

\* OrthoStep tagging a leaving cut with inr and an entering cut with outr
OrthoStepSwapsTags(sign, e, axis, clip_edge, a, b) ==
    LET da == sign * a.v[axis + 1] - e
        db == sign * b.v[axis + 1] - e
    IN IF (in_front(da) /\ in_front(db)) \/ on(da) \/ on(db)
       THEN <<b>>
       ELSE IF in_front(da) /\ behind(db)
       THEN << ClipVertex(CutPoint(a, b, da, db),
                          [b.f EXCEPT !.inr = clip_edge, !.ini = 0]) >>
       ELSE IF behind(da) /\ in_front(db)
       THEN << ClipVertex(CutPoint(a, b, da, db),
                          [a.f EXCEPT !.outr = clip_edge, !.outi = 0]),
               b >>
       ELSE << >>

\* OrthoStep pushing both ends of an edge that is kept
OrthoStepKeepsBothEnds(sign, e, axis, clip_edge, a, b) ==
    LET da == sign * a.v[axis + 1] - e
        db == sign * b.v[axis + 1] - e
    IN IF (in_front(da) /\ in_front(db)) \/ on(da) \/ on(db)
       THEN <<a, b>>
       ELSE IF in_front(da) /\ behind(db)
       THEN << ClipVertex(CutPoint(a, b, da, db),
                          [b.f EXCEPT !.outr = clip_edge, !.outi = 0]) >>
       ELSE IF behind(da) /\ in_front(db)
       THEN << ClipVertex(CutPoint(a, b, da, db),
                          [a.f EXCEPT !.inr = clip_edge, !.ini = 0]),
               b >>
       ELSE << >>

\* what one iteration of the loop pushes for the polygon edge a -> b
OrthoStep(sign, e, axis, clip_edge, a, b) ==
    LET da == sign * a.v[axis + 1] - e
        db == sign * b.v[axis + 1] - e
    IN IF (in_front(da) /\ in_front(db)) \/ on(da) \/ on(db)
       THEN <<b>>
       ELSE IF in_front(da) /\ behind(db)
       THEN << ClipVertex(CutPoint(a, b, da, db),
                          [b.f EXCEPT !.outr = clip_edge, !.outi = 0]) >>
       ELSE IF behind(da) /\ in_front(db)
       THEN << ClipVertex(CutPoint(a, b, da, db),
                          [a.f EXCEPT !.inr = clip_edge, !.ini = 0]),
               b >>
       ELSE << >>

RECURSIVE OrthoFrom(_, _, _, _, _, _)
OrthoFrom(sign, e, axis, clip_edge, vin, i) ==
    IF i > Len(vin) THEN << >>
    ELSE LET a == IF i = 1 THEN vin[Len(vin)] ELSE vin[i - 1]
         IN OrthoStep(sign, e, axis, clip_edge, a, vin[i])
            \o OrthoFrom(sign, e, axis, clip_edge, vin, i + 1)

orthographic(sign, e, axis, clip_edge, vin) == OrthoFrom(sign, e, axis, clip_edge, vin, 1)

(***************************************************************************)
(* clip (575-624), in its parts: the change to clip space, the four passes *)
(* and the depth filter.                                                   *)
(***************************************************************************)
ExtentToClip(x) == RotDen * RotDen * Fine * x

\* v: basis.mult(inc.v - rpos)
ToClipSpace(rpos, basis, incident) ==
    [i \in 1..Len(incident) |->
        ClipVertex(VScale(Mult(basis, VSub(incident[i].v, VScale(rpos, RotDen))), Fine),
                   incident[i].f)]

\* pass k (1..4) of clip: +x, +y, -x, -y against e.x, e.y, e.x, e.y
ClipPassOf(k, e, clip_edges, vin) ==
    orthographic(IF k <= 2 THEN 1 ELSE -1,
                 ExtentToClip(IF k % 2 = 1 THEN e[1] ELSE e[2]),
                 IF k % 2 = 1 THEN 0 ELSE 1,
                 clip_edges[k],
                 vin)

\* d = cv.v.z() - e.z(), at ClipScale
Depth(cv, e) == cv.v[3] - ExtentToClip(e[3])

\* Keep with "d < 0.0"
KeepStrictlyBelow(d) == d < 0

\* if d <= 0.0
Keep(d) == d <= 0

\* the (vertex, d) pairs pushed to clipped: position and d at MarginScale
RECURSIVE DepthFilter(_, _, _, _, _)
DepthFilter(rpos, e, basis, vin, i) ==
    IF i > Len(vin) THEN << >>
    ELSE LET cv == vin[i]
             d == Depth(cv, e)
         IN (IF Keep(d)
             THEN << [vertex |-> ClipVertex(VAdd(MulVec(basis, cv.v),
                                                 VScale(rpos, RotDen * RotDen * RotDen * Fine)),
                                            cv.f),
                      d |-> RotDen * d] >>
             ELSE << >>)
            \o DepthFilter(rpos, e, basis, vin, i + 1)

(***************************************************************************)
(* Edge case: support_edge (644-677) and edges_contact (626-642).          *)
(***************************************************************************)
support_edge(tx, e, n0) ==
    LET n == Mult(tx.rot, n0)
        absn == VAbs(n)
        a == <<e[1], e[2], e[3]>>
        b == IF absn[1] > absn[2]
             THEN IF absn[2] > absn[3]
                  THEN <<e[1], e[2], -e[3]>>
                  ELSE <<e[1], -e[2], e[3]>>
             ELSE IF absn[1] > absn[3]
                  THEN <<e[1], e[2], -e[3]>>
                  ELSE <<-e[1], e[2], e[3]>>
        sign == VSign(n)
    IN << transform_point3(tx, VMul(a, sign)), transform_point3(tx, VMul(b, sign)) >>

\* a quotient num / den kept as a fraction in lowest terms with a positive denominator
Fraction(num, den) ==
    LET g == Gcd(Abs(num), Abs(den))
    IN [num |-> Sgn(den) * (num \div g), den |-> Abs(den) \div g]

\* p + d * q for points at VertexScale; the result is at MarginScale
PointAlong(p, d, q) ==
    <<RelDen * Fine * p[1] + RMulDiv(q.num, RelDen * Fine * d[1], q.den),
      RelDen * Fine * p[2] + RMulDiv(q.num, RelDen * Fine * d[2], q.den),
      RelDen * Fine * p[3] + RMulDiv(q.num, RelDen * Fine * d[3], q.den)>>

\* the two closest points [ca, cb]; with denom = 0 (parallel segments) the f32
\* quotients are not finite and neither are the points
edges_contact(pa, qa, pb, qb) ==
    LET da == VSub(qa, pa)
        db == VSub(qb, pb)
        r == VSub(pa, pb)
        a == Dot(da, da)
        e == Dot(db, db)
        f == Dot(db, r)
        c == Dot(da, r)
        b == Dot(da, db)
        denom == a * e - b * b
    IN IF denom = 0 \/ e = 0 THEN [finite |-> FALSE, ca |-> VZero, cb |-> VZero]
       ELSE LET ta == Fraction(b * f - c * e, denom)
                tb == Fraction(b * ta.num + f * ta.den, e * ta.den)
            IN [finite |-> TRUE, ca |-> PointAlong(pa, da, ta), cb |-> PointAlong(pb, db, tb)]

(***************************************************************************)
(* Manifold assembly (955-1030).                                           *)
(***************************************************************************)
\* finite is FALSE when the f32 position is NaN or infinite
Contact(position, penetration, finite) ==
    [position |-> position, penetration |-> penetration, finite |-> finite]

NoManifold == [some |-> FALSE]

Manifold(body1, body2, normal, penetration, contacts) ==
    [some |-> TRUE, body1 |-> body1, body2 |-> body2, normal |-> normal,
     penetration |-> penetration, contacts |-> contacts]

\* lines 955-981: reference and incident box, incident face, reference basis
FaceSetupOf(fr, sl) ==
    LET flip == ~(sl.axis < 3)
        rtx == IF flip THEN fr.btx ELSE fr.atx
        itx == IF flip THEN fr.atx ELSE fr.btx
        er == IF flip THEN fr.eb ELSE fr.ea
        ei == IF flip THEN fr.ea ELSE fr.eb
        n == IF flip THEN VNeg(sl.n) ELSE sl.n
        refeb == compute_reference_edges_and_basis(er, rtx, n, sl.axis)
    IN [rtx |-> rtx, itx |-> itx, er |-> er, ei |-> ei, flip |-> flip, n |-> n,
        incident |-> compute_incident_face(itx, ei, n),
        clip_edges |-> refeb.clip_edges, basis |-> refeb.basis, e |-> refeb.e]

\* FaceManifoldOf without "if flip { -n }": the clipping normal is returned
FaceManifoldOfKeepsClipNormal(a, b, sl, fc, out) ==
    IF Len(out) > 0
    THEN Manifold(a.body, b.body, fc.n, sl.smax,
                  [i \in 1..Len(out) |-> Contact(out[i].vertex.v, out[i].d, TRUE)])
    ELSE NoManifold

\* FaceManifoldOf without the test "out.len() > 0"
FaceManifoldOfAnyLength(a, b, sl, fc, out) ==
    Manifold(a.body, b.body,
             IF fc.flip THEN VNeg(fc.n) ELSE fc.n,
             sl.smax,
             [i \in 1..Len(out) |-> Contact(out[i].vertex.v, out[i].d, TRUE)])

\* lines 984-1006: the manifold of the face case from clip's output
FaceManifoldOf(a, b, sl, fc, out) ==
    IF Len(out) > 0
    THEN Manifold(a.body, b.body,
                  IF fc.flip THEN VNeg(fc.n) ELSE fc.n,
                  sl.smax,
                  [i \in 1..Len(out) |-> Contact(out[i].vertex.v, out[i].d, TRUE)])
    ELSE NoManifold

\* EdgeManifoldOf whose contact carries no penetration (0.0)
EdgeManifoldOfWithoutDepth(a, b, fr, sl) ==
    LET d == VSub(fr.btx.pos, fr.atx.pos)
        n0 == VRDiv(MulVec(fr.atx.rot, sl.n), RotDen)
        n == IF Dot(n0, d) < 0 THEN VNeg(n0) ELSE n0
        sa == support_edge(fr.atx, fr.ea, n)
        sb == support_edge(fr.btx, fr.eb, VNeg(n))
        cc == edges_contact(sa[1], sa[2], sb[1], sb[2])
    IN Manifold(a.body, b.body, n, sl.smax,
                << Contact(VRDiv(VAdd(cc.ca, cc.cb), 2), 0, cc.finite) >>)

\* lines 1008-1029: the manifold of the edge case
EdgeManifoldOf(a, b, fr, sl) ==
    LET d == VSub(fr.btx.pos, fr.atx.pos)
        n0 == VRDiv(MulVec(fr.atx.rot, sl.n), RotDen)
        n == IF Dot(n0, d) < 0 THEN VNeg(n0) ELSE n0
        sa == support_edge(fr.atx, fr.ea, n)
        sb == support_edge(fr.btx, fr.eb, VNeg(n))
        cc == edges_contact(sa[1], sa[2], sb[1], sb[2])
    IN Manifold(a.body, b.body, n, sl.smax,
                << Contact(VRDiv(VAdd(cc.ca, cc.cb), 2), sl.smax, cc.finite) >>)

(***************************************************************************)
(* box_to_box as one function, composed of the stages above.               *)
(***************************************************************************)
RECURSIVE ClipFrom(_, _, _)
\* passes k..4 of clip on vin; the empty sequence after an early "return Clip::default()"
ClipFrom(fc, vin, k) ==
    IF k > 4 THEN DepthFilter(fc.rtx.pos, fc.e, fc.basis, vin, 1)
    ELSE LET vout == ClipPassOf(k, fc.e, fc.clip_edges, vin)
         IN IF k < 4 /\ Len(vout) = 0 THEN << >> ELSE ClipFrom(fc, vout, k + 1)

clip(fc) == ClipFrom(fc, ToClipSpace(fc.rtx.pos, fc.basis, fc.incident), 1)

box_to_box(a, b) ==
    LET fr == FrameSetup(a, b)
        ra == TrackAxes(fr, InitTracker, 0, 2)
    IN IF ra.none THEN NoManifold
       ELSE LET rb == TrackAxes(fr, ra.tr, 3, 5)
            IN IF rb.none THEN NoManifold
               ELSE LET re == IF fr.parallel THEN rb ELSE TrackAxes(fr, rb.tr, 6, 14)
                    IN IF re.none THEN NoManifold
                       ELSE LET sl == SelectAxis(fr, re.tr)
                            IN IF sl.axis = U32Max THEN NoManifold
                               ELSE IF sl.axis < 6
                               THEN LET fc == FaceSetupOf(fr, sl)
                                    IN FaceManifoldOf(a, b, sl, fc, clip(fc))
                               ELSE EdgeManifoldOf(a, b, fr, sl)

(***************************************************************************)
(* The inputs of a query.                                                  *)
(***************************************************************************)
NumExtents == 2
NumOffsets == 5

ExtentChoices == << <<5, 5, 5>>, <<5, 10, 15>>, <<10, 5, 5>>, <<15, 5, 10>> >>

OffsetChoices == <<0, 9, 11, -9, 14, 19, -11, 4>>

Extents == {ExtentChoices[i] : i \in 1..NumExtents}

Offsets == {OffsetChoices[i] : i \in 1..NumOffsets}

IdentityTransform == Transform(Identity, VZero)

\* the local offsets of the pair (a.local, b.local)
LocalChoices ==
    { <<IdentityTransform, IdentityTransform>>,
      <<Transform(RotZ90, <<3, 0, 0>>), Transform(RotX90, <<0, 0, -3>>)>> }

RotationsA == {Identity, RotZ90, Cycle, Tilt}

RotationsB == {Identity, RotZ90, Cycle, Tilt}

(***************************************************************************)
(* State: the inputs, the position in box_to_box, and its local variables. *)
(***************************************************************************)
VARIABLES a, b, pc, frame, tracker, sel, face, buf, pass, result

vars == <<a, b, pc, frame, tracker, sel, face, buf, pass, result>>

Unset == [unset |-> TRUE]

Init ==
    /\ \E ra \in RotationsA, rb \in RotationsB, ea \in Extents, eb \in Extents,
          l \in LocalChoices, x \in Offsets, y \in Offsets, z \in Offsets :
          /\ a = Obb("A", Transform(ra, VZero), l[1], ea)
          /\ b = Obb("B", Transform(rb, <<x, y, z>>), l[2], eb)
    /\ pc = "setup"
    /\ frame = Unset
    /\ tracker = Unset
    /\ sel = Unset
    /\ face = Unset
    /\ buf = << >>
    /\ pass = 0
    /\ result = NoManifold

Return(m) ==
    /\ result' = m
    /\ pc' = "done"

\* lines 680-725
Setup ==
    /\ pc = "setup"
    /\ frame' = FrameSetup(a, b)
    /\ tracker' = InitTracker
    /\ pc' = "faceA"
    /\ UNCHANGED <<a, b, sel, face, buf, pass, result>>

\* lines 727-758
FaceAxesA ==
    /\ pc = "faceA"
    /\ LET r == TrackAxes(frame, tracker, 0, 2)
       IN IF r.none
          THEN Return(NoManifold) /\ UNCHANGED tracker
          ELSE tracker' = r.tr /\ pc' = "faceB" /\ UNCHANGED result
    /\ UNCHANGED <<a, b, frame, sel, face, buf, pass>>

\* lines 760-795
FaceAxesB ==
    /\ pc = "faceB"
    /\ LET r == TrackAxes(frame, tracker, 3, 5)
       IN IF r.none
          THEN Return(NoManifold) /\ UNCHANGED tracker
          ELSE /\ tracker' = r.tr
               /\ pc' = IF frame.parallel THEN "select" ELSE "edges"
               /\ UNCHANGED result
    /\ UNCHANGED <<a, b, frame, sel, face, buf, pass>>

\* lines 795-924
EdgeAxes ==
    /\ pc = "edges"
    /\ LET r == TrackAxes(frame, tracker, 6, 14)
       IN IF r.none
          THEN Return(NoManifold) /\ UNCHANGED tracker
          ELSE tracker' = r.tr /\ pc' = "select" /\ UNCHANGED result
    /\ UNCHANGED <<a, b, frame, sel, face, buf, pass>>

\* lines 926-955
Select ==
    /\ pc = "select"
    /\ sel' = SelectAxis(frame, tracker)
    /\ IF sel'.axis = U32Max
       THEN Return(NoManifold)
       ELSE pc' = (IF sel'.axis < 6 THEN "face" ELSE "edge") /\ UNCHANGED result
    /\ UNCHANGED <<a, b, frame, tracker, face, buf, pass>>

\* lines 955-981 and 576-584
FaceSetup ==
    /\ pc = "face"
    /\ face' = FaceSetupOf(frame, sel)
    /\ buf' = ToClipSpace(face'.rtx.pos, face'.basis, face'.incident)
    /\ pass' = 0
    /\ pc' = "clip"
    /\ UNCHANGED <<a, b, frame, tracker, sel, result>>

\* lines 586-604: one orthographic pass and the emptiness test after it
ClipPass ==
    /\ pc = "clip"
    /\ pass < 4
    /\ buf' = ClipPassOf(pass + 1, face.e, face.clip_edges, buf)
    /\ pass' = pass + 1
    /\ IF pass' < 4 /\ Len(buf') = 0
       THEN Return(FaceManifoldOf(a, b, sel, face, << >>))
       ELSE UNCHANGED <<pc, result>>
    /\ UNCHANGED <<a, b, frame, tracker, sel, face>>

\* lines 606-623 and 984-1006
FaceManifold ==
    /\ pc = "clip"
    /\ pass = 4
    /\ Return(FaceManifoldOf(a, b, sel, face,
                             DepthFilter(face.rtx.pos, face.e, face.basis, buf, 1)))
    /\ UNCHANGED <<a, b, frame, tracker, sel, face, buf, pass>>

\* lines 1007-1030
EdgeManifold ==
    /\ pc = "edge"
    /\ Return(EdgeManifoldOf(a, b, frame, sel))
    /\ UNCHANGED <<a, b, frame, tracker, sel, face, buf, pass>>

Next ==
    \/ Setup
    \/ FaceAxesA
    \/ FaceAxesB
    \/ EdgeAxes
    \/ Select
    \/ FaceSetup
    \/ ClipPass
    \/ FaceManifold
    \/ EdgeManifold

Spec == Init /\ [][Next]_vars

\* the staged run returns what the function returns
StagedAgrees == pc = "done" => result = box_to_box(a, b)

(***************************************************************************)
(* Properties.                                                             *)
(***************************************************************************)
Returned == pc = "done" /\ result.some

FaceCase == face # Unset

EdgeCase == sel # Unset /\ sel.axis # U32Max /\ sel.axis >= 6

\* B.translation - A.translation of the combined transforms
CentreOffset == VSub(frame.btx.pos, frame.atx.pos)

\* C1: every returned manifold has dot(normal, B.translation - A.translation) >= 0,
\* and on the face-B path (flip) the returned normal is the clipping normal negated
\* back, that is the normal oriented at axis selection.
C1_NormalPointsFromAToB ==
    Returned =>
        /\ Dot(result.normal, CentreOffset) >= 0
        /\ (FaceCase /\ face.flip) => (face.n = VNeg(sel.n) /\ result.normal = sel.n)

\* a manifold returned on the face-B path whose tracked normal nb pointed from B to A
C1_Witness ==
    /\ Returned
    /\ FaceCase
    /\ face.flip
    /\ Dot(tracker.nb, CentreOffset) < 0
    /\ Dot(result.normal, CentreOffset) > 0

\* C4: the vertex buffer of clip never holds more than 8 vertices after a pass, and
\* no returned manifold has more than 8 contacts.
C4_AtMostEightVertices ==
    /\ Len(buf) <= 8
    /\ Returned => Len(result.contacts) <= 8

\* a returned manifold for which clipping grew the incident quad beyond 4 vertices
C4_Witness ==
    /\ Returned
    /\ FaceCase
    /\ pass = 4
    /\ Len(buf) > 4
    /\ Len(result.contacts) > 4

\* the vertices of buf that the depth filter keeps
KeptByDepthFilter == {i \in 1..Len(buf) : Keep(Depth(buf[i], face.e))}

\* C5: a manifold is returned only with at least one contact: a face case whose clip
\* result is empty (a pass emptied the buffer, or the depth filter removed every
\* vertex) returns None, and the edge case returns exactly one contact.
C5_NeverAnEmptyManifold ==
    pc = "done" =>
        /\ result.some => Len(result.contacts) >= 1
        /\ (FaceCase /\ (Len(buf) = 0 \/ KeptByDepthFilter = {})) => ~result.some
        /\ EdgeCase => (result.some /\ Len(result.contacts) = 1)

\* a face case in which the four passes left vertices and the depth filter removed all
C5_Witness ==
    /\ pc = "done"
    /\ FaceCase
    /\ pass = 4
    /\ Len(buf) > 0
    /\ KeptByDepthFilter = {}
    /\ ~result.some

\* two identical axis-aligned unit boxes (half-extents 0.5) centred at the same point
UnitBox(body) == Obb(body, IdentityTransform, IdentityTransform,
                     <<Unit \div 2, Unit \div 2, Unit \div 2>>)

CoordinateAxes ==
    {<<NormalScale, 0, 0>>, <<0, NormalScale, 0>>, <<0, 0, NormalScale>>,
     <<-NormalScale, 0, 0>>, <<0, -NormalScale, 0>>, <<0, 0, -NormalScale>>}

\* C7: for two coincident identical unit boxes box_to_box returns a manifold with
\* exactly 4 contacts, penetration -1.0 and a normal that is plus or minus a
\* coordinate axis.
C7_DeepSymmetricOverlap ==
    (pc = "done" /\ a = UnitBox("A") /\ b = UnitBox("B")) =>
        /\ result.some
        /\ Len(result.contacts) = 4
        /\ result.penetration = -MarginScale
        /\ result.normal \in CoordinateAxes

\* the query of the two coincident unit boxes has returned
C7_Witness ==
    /\ pc = "done"
    /\ a = UnitBox("A")
    /\ b = UnitBox("B")
    /\ pass = 4
    /\ result.some

(***************************************************************************)
(* Geometry of two boxes whose combined rotations are axis aligned: the    *)
(* boxes are then world-aligned intervals in each coordinate.              *)
(***************************************************************************)
AxisAlignedPair == IsAxisAligned(frame.atx.rot) /\ IsAxisAligned(frame.btx.rot)

\* half-extents along the world axes, at VertexScale
WorldHalfExtent(tx, e) == MulVec(EntryAbs(tx.rot), e)

\* centre of B minus centre of A, at VertexScale
WorldCentreOffset == VScale(CentreOffset, RotDen)

\* the sum of the half-extents of both boxes along world axis k (1..3)
ReachAlong(k) ==
    WorldHalfExtent(frame.atx, frame.ea)[k] + WorldHalfExtent(frame.btx, frame.eb)[k]

SeparatedAlong(k) == Abs(WorldCentreOffset[k]) > ReachAlong(k)

InteriorsIntersect == \A k \in 1..3 : Abs(WorldCentreOffset[k]) < ReachAlong(k)

ClosedBoxesMeet == \A k \in 1..3 : Abs(WorldCentreOffset[k]) <= ReachAlong(k)

\* C2: two boxes whose centres are separated along a shared world axis by more than
\* the sum of their half-extents on that axis yield None, for every choice of
\* extents and every axis-aligned relative orientation.
C2_SeparatedOnSharedAxisIsNone ==
    (pc = "done" /\ AxisAlignedPair /\ \E k \in 1..3 : SeparatedAlong(k))
        => ~result.some

\* C3: for axis-aligned boxes, None is returned only when the interiors do not
\* intersect, and a manifold is returned only when the closed boxes share a point.
C3_NoneOnlyWhenDisjointOrTouching ==
    (pc = "done" /\ AxisAlignedPair) =>
        /\ InteriorsIntersect => result.some
        /\ result.some => ClosedBoxesMeet

\* the overlap along world axis k, at VertexScale
OverlapAlong(k) == ReachAlong(k) - Abs(WorldCentreOffset[k])

\* the boxes overlap by a positive amount along axis k and their centres agree on
\* the other two axes
ShallowOverlapAlong(k) ==
    /\ OverlapAlong(k) > 0
    /\ \A j \in (1..3) \ {k} : WorldCentreOffset[j] = 0

\* a depth at VertexScale, as a penetration at MarginScale
AsPenetration(depth) == -(depth * RotDen * RotDen * Fine)

\* C6: two axis-aligned boxes overlapping by delta along one axis, aligned on the
\* other two, with face A selected, yield exactly 4 contacts, each with penetration
\* -delta, and manifold penetration -delta, whichever axis carries the overlap.
C6_ShallowFaceOverlap ==
    \A k \in 1..3 :
        (/\ pc = "done"
         /\ AxisAlignedPair
         /\ ShallowOverlapAlong(k)
         /\ sel # Unset
         /\ sel.axis < 3)
        => /\ result.some
           /\ Len(result.contacts) = 4
           /\ result.penetration = AsPenetration(OverlapAlong(k))
           /\ \A i \in 1..Len(result.contacts) :
                  result.contacts[i].penetration = AsPenetration(OverlapAlong(k))

\* the box o with its world transform pre-composed with the rotation g
PreRotate(g, o) == [o EXCEPT !.transform = Compose(Transform(g, VZero), o.transform)]

\* g applied to a vector
Rotated(g, v) == VRDiv(MulVec(g, v), RotDen)

ContactsOf(m) == {<<m.contacts[i].position, m.contacts[i].penetration>> :
                    i \in 1..Len(m.contacts)}

\* the manifold m2 is the manifold m1 carried along by the rotation g
Carried(g, m1, m2) ==
    /\ m1.some = m2.some
    /\ m1.some =>
        /\ Len(m2.contacts) = Len(m1.contacts)
        /\ m2.penetration = m1.penetration
        /\ m2.normal = Rotated(g, m1.normal)
        /\ ContactsOf(m2) = {<<Rotated(g, c[1]), c[2]>> : c \in ContactsOf(m1)}

\* C8: pre-composing both world transforms with the same cube rotation G leaves
\* None as None and otherwise rotates the normal and the contact positions by G,
\* keeping the number of contacts and the penetrations.
C8_OrientationInvariance ==
    pc = "done" =>
        \A g \in CubeRotations :
            Carried(g, result, box_to_box(PreRotate(g, a), PreRotate(g, b)))

Selected == sel # Unset /\ sel.axis # U32Max

\* C9: an edge axis is selected only if emax > max(amax, bmax), and a face-B axis
\* is selected over face A only if bmax > amax; with amax = bmax face A is selected.
C9_SelectionFavoursFacesAndA ==
    Selected =>
        /\ sel.axis >= 6 => tracker.emax > Max(tracker.amax, tracker.bmax)
        /\ (sel.axis >= 3 /\ sel.axis < 6) => tracker.bmax > tracker.amax
        /\ (sel.axis < 6 /\ tracker.amax = tracker.bmax) => sel.axis < 3

\* index (0..2) of the local axis of the reference box that carries the reference face
ReferenceAxis == IF sel.axis >= 3 THEN sel.axis - 3 ELSE sel.axis

\* +1 or -1: the side of the reference box on which the reference face lies
ReferenceSide ==
    IF Mult(face.rtx.rot, face.n)[ReferenceAxis + 1] > 0 THEN 1 ELSE -1

\* outward normal of the reference face in world space, scaled by RotDen
OutwardNormal == VScale(Column(face.rtx.rot, ReferenceAxis), ReferenceSide)

\* the eight corners of the reference box in world space, at VertexScale
ReferenceCorners ==
    {transform_point3(face.rtx,
                      <<sx * face.er[1], sy * face.er[2], sz * face.er[3]>>) :
        sx \in {-1, 1}, sy \in {-1, 1}, sz \in {-1, 1}}

\* clip's image of the world point p
InClipSpace(p) ==
    ToClipSpace(face.rtx.pos, face.basis,
                <<ClipVertex(p, FeaturePair(0, 0, 0, 0))>>)[1].v

\* C10: for each reference face, the third clip-space coordinate of a point is its
\* signed coordinate along the face's outward normal, e.z is the half-extent of the
\* reference box along that normal, and every point of the reference box maps to
\* |x| <= e.x, |y| <= e.y, z <= e.z.
C10_ClipSpaceIsConsistent ==
    FaceCase =>
        /\ face.e[3] = face.er[ReferenceAxis + 1]
        /\ \A p \in ReferenceCorners :
               LET q == InClipSpace(p)
               IN /\ q[3] = Fine * Dot(OutwardNormal,
                                       VSub(p, VScale(face.rtx.pos, RotDen)))
                  /\ Abs(q[1]) <= ExtentToClip(face.e[1])
                  /\ Abs(q[2]) <= ExtentToClip(face.e[2])
                  /\ q[3] <= ExtentToClip(face.e[3])

\* x < 0.005, for x at ClipScale
BelowBand(x) == x * ClipEpsDen < ClipEpsNum * ClipScale

\* the clip-space point v lies inside the 4 side planes of the reference face, up to
\* the band
InsideSidePlanes(v) ==
    /\ BelowBand(v[1] - ExtentToClip(face.e[1]))
    /\ BelowBand(v[2] - ExtentToClip(face.e[2]))
    /\ BelowBand(-v[1] - ExtentToClip(face.e[1]))
    /\ BelowBand(-v[2] - ExtentToClip(face.e[2]))

\* C11: after the four clip passes every vertex that clip emits lies inside all 4
\* side planes of the reference face up to the 0.005 band.
C11_SurvivorsInsideSidePlanes ==
    (FaceCase /\ pass = 4) =>
        \A i \in KeptByDepthFilter : InsideSidePlanes(buf[i].v)

\* index (0..2) of the local axis along the face normal nrm (one of AxisVectors)
AxisOf(nrm) == IF nrm[1] # 0 THEN 0 ELSE IF nrm[2] # 0 THEN 1 ELSE 2

\* the face with local outward normal nrm of the box (tx, e), as compute_incident_face
\* returns it
FaceAsIncident(tx, e, nrm) == compute_incident_face(tx, e, VNeg(Rotated(tx.rot, nrm)))

\* the same face as compute_reference_edges_and_basis describes it
FaceAsReference(tx, e, nrm) ==
    compute_reference_edges_and_basis(e, tx, Rotated(tx.rot, nrm), AxisOf(nrm))

EdgeIds(q) == {q[i].f.ini : i \in 1..4} \cup {q[i].f.outi : i \in 1..4}

NextAround(i) == (i % 4) + 1

\* the outgoing edge of each vertex is the incoming edge of the next one
EdgesChain(q) == \A i \in 1..4 : q[i].f.outi = q[NextAround(i)].f.ini

\* the corner pairs that the quad q joins by the edge id k
EdgeEnds(q, k) == {{q[i].v, q[NextAround(i)].v} : i \in {j \in 1..4 : q[j].f.outi = k}}

\* C12: for each of the 6 faces of a box the edge ids on the incident-face vertices
\* are the 4 clip_edges of the same face as reference face, the outi of each vertex
\* is the ini of the next, every id is in 0..11, and an id joins the same two
\* corners in both faces that carry it.
C12_EdgeNumberingAgrees ==
    (pc = "clip" /\ pass = 0) =>
        LET faces == [nrm \in AxisVectors |-> FaceAsIncident(face.itx, face.ei, nrm)]
            ids == [nrm \in AxisVectors |-> EdgeIds(faces[nrm])]
        IN /\ \A nrm \in AxisVectors :
                  LET ref == FaceAsReference(face.itx, face.ei, nrm)
                  IN /\ ids[nrm] = {ref.clip_edges[i] : i \in 1..4}
                     /\ Cardinality(ids[nrm]) = 4
                     /\ EdgesChain(faces[nrm])
           /\ UNION {ids[nrm] : nrm \in AxisVectors} = 0..11
           /\ \A k \in 0..11 :
                  LET carriers == {m \in AxisVectors : k \in ids[m]}
                  IN /\ Cardinality(carriers) = 2
                     /\ Cardinality(UNION {EdgeEnds(faces[m], k) : m \in carriers}) = 1

\* a face case on a tilted incident box with non-cubic extents, whose incident face
\* is one of the six faces compared
C12_Witness ==
    /\ pc = "clip"
    /\ pass = 0
    /\ ~IsAxisAligned(face.itx.rot)
    /\ face.ei[1] # face.ei[2]
    /\ \E nrm \in AxisVectors :
           /\ face.incident = FaceAsIncident(face.itx, face.ei, nrm)
           /\ EdgeIds(face.incident) = {FaceAsReference(face.itx, face.ei, nrm).clip_edges[i] : i \in 1..4}

\* the candidate normals handed to track_edge_axis for the 9 edge axes
EdgeNormals == {EdgeNormal(frame, i, j) : i \in 0..2, j \in 0..2}

\* C13: when the boxes are flagged parallel no edge axis is evaluated and the
\* selected axis is a face axis (< 6), so no edge-case manifold is returned; edge
\* axes are evaluated only when not flagged, and then no candidate normal has
\* length zero.
C13_ParallelSkipsEdgeAxes ==
    frame # Unset =>
        /\ frame.parallel =>
              /\ pc \notin {"edges", "edge"}
              /\ tracker # Unset => (tracker.eaxis = U32Max /\ tracker.emax = F32Min)
              /\ Selected => sel.axis < 6
              /\ Returned => FaceCase
        /\ (pc = "edges" \/ (tracker # Unset /\ tracker.eaxis # U32Max)) =>
              /\ ~frame.parallel
              /\ \A n \in EdgeNormals : n # VZero /\ ScaledLength(n) > 0

\* a manifold returned for boxes flagged parallel, through a face axis
C13_Witness ==
    /\ Returned
    /\ frame.parallel
    /\ FaceCase
    /\ sel.axis < 6
    /\ tracker.eaxis = U32Max

\* axis selection has been reached: no axis test has returned None
AtSelection == pc = "select" \/ sel # Unset

\* C14: whenever axis selection is reached, aaxis is in 0..2, baxis is in 3..5 and
\* eaxis is in 6..14 if the edge axes were evaluated; the selected axis is never
\* the u32::MAX sentinel, so the "return None" on the sentinel is never taken.
C14_SentinelIsUnreachable ==
    AtSelection =>
        /\ tracker.aaxis \in 0..2
        /\ tracker.baxis \in 3..5
        /\ ~frame.parallel => tracker.eaxis \in 6..14
        /\ sel # Unset =>
              /\ sel.axis \in {tracker.aaxis, tracker.baxis, tracker.eaxis}
              /\ sel.axis # U32Max
              /\ pc # "done" \/ FaceCase \/ EdgeCase

\* selection reached with the edge axes evaluated
C14_Witness ==
    /\ pc = "select"
    /\ ~frame.parallel
    /\ tracker.aaxis \in 0..2
    /\ tracker.baxis \in 3..5
    /\ tracker.eaxis \in 6..14

\* C15: with an edge axis selected the manifold has exactly one contact whose
\* penetration is the manifold penetration, the margin smax (<= 0) of the selected
\* axis; with a face axis selected a returned manifold has penetration smax of the
\* selected face axis.
C15_PenetrationIsAxisMargin ==
    (pc = "done" /\ Selected) =>
        /\ sel.smax <= 0
        /\ sel.axis >= 6 =>
              /\ result.some
              /\ Len(result.contacts) = 1
              /\ result.contacts[1].penetration = result.penetration
              /\ result.penetration = sel.smax
              /\ sel.smax = tracker.emax
        /\ (sel.axis < 6 /\ result.some) =>
              /\ result.penetration = sel.smax
              /\ sel.smax = (IF sel.axis < 3 THEN tracker.amax ELSE tracker.bmax)

\* an edge-case manifold with a negative margin has been returned
C15_Witness ==
    /\ Returned
    /\ EdgeCase
    /\ sel.smax < 0
    /\ Len(result.contacts) = 1
    /\ result.contacts[1].penetration = sel.smax

\* sign * v[axis] - e for the clip pass p (1..4) of the current face case
PlaneDistance(p, v) ==
    (IF p <= 2 THEN 1 ELSE -1) * v[IF p % 2 = 1 THEN 1 ELSE 2]
    - ExtentToClip(IF p % 2 = 1 THEN face.e[1] ELSE face.e[2])

\* the index before j, cyclically, in a polygon of n vertices
Before(j, n) == IF j = 1 THEN n ELSE j - 1

\* w is a cut vertex of pass p with clip edge k on a polygon edge that leaves the
\* half-plane: the feature pair of the end b with outr = k
CutLeaving(w, p, k, poly) ==
    \E j \in 1..Len(poly) :
        /\ in_front(PlaneDistance(p, poly[Before(j, Len(poly))].v))
        /\ behind(PlaneDistance(p, poly[j].v))
        /\ w.f = [poly[j].f EXCEPT !.outr = k, !.outi = 0]

\* w is a cut vertex on a polygon edge that enters the half-plane: the feature pair
\* of the end a with inr = k
CutEntering(w, p, k, poly) ==
    \E j \in 1..Len(poly) :
        /\ behind(PlaneDistance(p, poly[Before(j, Len(poly))].v))
        /\ in_front(PlaneDistance(p, poly[j].v))
        /\ w.f = [poly[Before(j, Len(poly))].f EXCEPT !.inr = k, !.ini = 0]

\* what a clip pass does to the buffer
TaggedByPass ==
    (pc = "clip" /\ pass' = pass + 1) =>
        LET k == face.clip_edges[pass']
        IN \A i \in 1..Len(buf') :
               \/ \E j \in 1..Len(buf) : buf'[i] = buf[j]
               \/ CutLeaving(buf'[i], pass', k, buf)
               \/ CutEntering(buf'[i], pass', k, buf)

ReferenceEdgeIds == {face.clip_edges[i] : i \in 1..4}

\* inr and outr of every vertex in the buffer are unset or clip edges of the face
TagsAreReferenceEdges ==
    FaceCase =>
        \A i \in 1..Len(buf) :
            /\ buf[i].f.inr \in {U8Max} \cup ReferenceEdgeIds
            /\ buf[i].f.outr \in {U8Max} \cup ReferenceEdgeIds

\* C16: in a clip pass with clip edge id k, a vertex created where a polygon edge
\* leaves the half-plane carries outr = k, one created where it enters carries
\* inr = k, and every other vertex is passed through with its feature pair and
\* position unchanged; so every inr/outr of a vertex of clip is the unset sentinel
\* or one of the 4 clip_edges of the reference face.
C16_FeatureTagging == [][TaggedByPass]_vars /\ []TagsAreReferenceEdges

\* after a pass the buffer holds a leaving cut, an entering cut and an untouched vertex
C16_Witness ==
    /\ pc = "clip"
    /\ pass >= 1
    /\ \E i \in 1..Len(buf) :
           buf[i].f.outr = face.clip_edges[pass] /\ buf[i].f.inr = U8Max
    /\ \E i \in 1..Len(buf) :
           buf[i].f.inr = face.clip_edges[pass] /\ buf[i].f.outr = U8Max
    /\ \E i \in 1..Len(buf) :
           buf[i].f.inr = U8Max /\ buf[i].f.outr = U8Max
=============================================================================
